---- MODULE Spec2Model ----
(***************************************************************************)
(* Model of the LinkedIn blog agent: the e-mail dispatcher                 *)
(* (src/src/email_sender.py) and the content generator                     *)
(* (src/src/blog_generator.py).                                            *)
(*                                                                         *)
(* A Python str is a sequence of one-character strings; a Python dict is   *)
(* a sequence of [k, v] entries in insertion order.                        *)
(***************************************************************************)
EXTENDS Integers, Sequences, FiniteSets, TLC

VARIABLES
    \* ---- e-mail dispatcher ----
    op,               \* the EmailSender method under call
    recipients,       \* argument `recipients` (list of str)
    skip_invalid,     \* argument `skip_invalid`
    recipient,        \* argument `recipient` of the single sends
    recipient_email,  \* self.recipient_email (EMAIL_RECIPIENT secret)
    attachment,       \* what is found at `attachment_path`
    pc,               \* position of the call
    results,          \* `results` of send_batch_with_validation
    loop_list,        \* `recipients` of send_to_multiple_recipients
    idx,              \* entries of loop_list already iterated
    sending_results,  \* `results` of send_to_multiple_recipients
    attempts,         \* every call of _send_email so far: [to, stage]
    ret,              \* return value of a single send
    raised,           \* an exception left the call
    \* ---- content generator ----
    gen_op,           \* the LinkedInBlogGenerator method under call
    topics,           \* argument `topics` (or the one `topic`)
    gen_pc,           \* position of the call
    gen_idx,          \* topics already iterated
    blog_posts,       \* `blog_posts` of generate_multiple_posts
    api,              \* what generate_content does in the single call
    calls,            \* every generate_blog_post so far: [topic, kind]
    outcome,          \* how the last generate_blog_post ended
    gen_raised,       \* an exception left generate_multiple_posts
    \* ---- content sanitizer ----
    blog_data,        \* the record _clean_content works on
    clean_input,      \* the record it was first given
    first_pass,       \* the record after the first pass
    passes,           \* passes of _clean_content so far
    \* ---- send_multiple_posts ----
    posts,            \* argument `blog_posts`: the title of each post
    send_separately,  \* argument `send_separately`
    post_results,     \* `results` of send_multiple_posts
    post_idx,         \* posts already iterated
    post_sends,       \* what each send of the call returned, in call order
    \* ---- response parser ----
    sections,         \* the section bodies the response is written from
    response,         \* argument `response_text`
    parsed,           \* the record _parse_blog_response returns
    \* ---- recipient validator ----
    address,          \* argument `email` of validate_email
    is_valid,         \* what validate_email returned
    addr_list,        \* argument `recipients` of get_invalid_emails
    invalid_found,    \* what get_invalid_emails returned
    val_pc,           \* position of the validator calls
    \* ---- topic suggestions ----
    sug_api,          \* what generate_content does for get_topic_suggestions
    suggestions,      \* what get_topic_suggestions returned
    sug_raised,       \* an exception left get_topic_suggestions
    sug_pc            \* position of the call

emailVars == <<op, recipients, skip_invalid, recipient, recipient_email,
               attachment, pc, results, loop_list, idx, sending_results,
               attempts, ret, raised>>

genVars == <<gen_op, topics, gen_pc, gen_idx, blog_posts, api, calls,
             outcome, gen_raised>>

cleanVars == <<blog_data, clean_input, first_pass, passes>>

postVars == <<posts, send_separately, post_results, post_idx, post_sends>>

parseVars == <<sections, response, parsed>>

valVars == <<address, is_valid, addr_list, invalid_found, val_pc>>

sugVars == <<sug_api, suggestions, sug_raised, sug_pc>>

auxVars == <<postVars, parseVars, valVars, sugVars>>

vars == <<emailVars, genVars, cleanVars, auxVars>>

\* the components a specification does not exercise stay as constructed
NoOutcome == [kind |-> "none", message |-> <<>>, post |-> <<>>]
NoApi == [raises |-> FALSE, text |-> <<>>]
NoBlogData == [title |-> <<>>, content |-> <<>>, hashtags |-> <<>>,
               call_to_action |-> <<>>]

EmailIdle ==
    /\ op = "idle"
    /\ recipients = <<>>
    /\ skip_invalid = TRUE
    /\ recipient = <<>>
    /\ recipient_email = <<>>
    /\ attachment = "missing"
    /\ pc = "idle"
    /\ results = <<>>
    /\ loop_list = <<>>
    /\ idx = 0
    /\ sending_results = <<>>
    /\ attempts = <<>>
    /\ ret = "unset"
    /\ raised = FALSE

GenIdle ==
    /\ gen_op = "idle"
    /\ topics = <<>>
    /\ gen_pc = "idle"
    /\ gen_idx = 0
    /\ blog_posts = <<>>
    /\ api = NoApi
    /\ calls = <<>>
    /\ outcome = NoOutcome
    /\ gen_raised = FALSE

CleanIdle ==
    /\ blog_data = NoBlogData
    /\ clean_input = NoBlogData
    /\ first_pass = NoBlogData
    /\ passes = 0

PostIdle ==
    /\ posts = <<>>
    /\ send_separately = TRUE
    /\ post_results = <<>>
    /\ post_idx = 0
    /\ post_sends = <<>>

ParseIdle ==
    /\ sections = <<>>
    /\ response = <<>>
    /\ parsed = <<>>

ValIdle ==
    /\ address = <<>>
    /\ is_valid = FALSE
    /\ addr_list = <<>>
    /\ invalid_found = <<>>
    /\ val_pc = "idle"

SugIdle ==
    /\ sug_api = NoApi
    /\ suggestions = <<>>
    /\ sug_raised = FALSE
    /\ sug_pc = "idle"

(***************************************************************************)
(* Bounds                                                                  *)
(***************************************************************************)
MaxRecipients == 3
MaxTextLen == 4      \* longest text given to the sanitizer
MaxPasses == 2       \* passes of the sanitizer over one record
MaxWords == 2        \* words in an upstream error message
MaxTopics == 3       \* topics given to generate_multiple_posts
MaxContentLines == 2 \* lines of the CONTENT section of a response
MaxAddrLen == 7      \* longest address drawn from AddrAlphabet
MaxSuggestionLines == 2 \* lines of a topic-suggestion response
MaxPosts == 3        \* longest list given to send_multiple_posts

(***************************************************************************)
(* Strings and dicts                                                       *)
(***************************************************************************)
Lower == {"a","b","c","d","e","f","g","h","i","j","k","l","m",
          "n","o","p","q","r","s","t","u","v","w","x","y","z"}
Upper == {"A","B","C","D","E","F","G","H","I","J","K","L","M",
          "N","O","P","Q","R","S","T","U","V","W","X","Y","Z"}
Digit == {"0","1","2","3","4","5","6","7","8","9"}
Alpha == Lower \cup Upper
Alnum == Alpha \cup Digit

SeqsUpTo(S, n) == UNION {[1..k -> S] : k \in 0..n}

EmptyDict == <<>>
DictKeys(d) == [i \in 1..Len(d) |-> d[i].k]
DictHas(d, key) == \E i \in 1..Len(d) : d[i].k = key
DictGet(d, key) == d[CHOOSE i \in 1..Len(d) : d[i].k = key].v
\* d[key] = val: an existing key keeps its position, a new key goes last
DictSet(d, key, val) ==
    IF DictHas(d, key)
    THEN [i \in 1..Len(d) |-> IF d[i].k = key THEN [k |-> key, v |-> val] ELSE d[i]]
    ELSE Append(d, [k |-> key, v |-> val])
\* [k for k, v in d.items() if v = want]
KeysWhere(d, want) ==
    LET sel == SelectSeq(d, LAMBDA e : e.v = want)
    IN  [i \in 1..Len(sel) |-> sel[i].k]
CountWhere(d, want) == Len(SelectSeq(d, LAMBDA e : e.v = want))

(***************************************************************************)
(* validate_email: re.match(r'^[a-zA-Z0-9._%+-]+@[a-zA-Z0-9.-]+\.          *)
(* [a-zA-Z]{2,}$', email). `$` also matches just before a final newline.   *)
(***************************************************************************)
LocalChars == Alnum \cup {".", "_", "%", "+", "-"}
DomainChars == Alnum \cup {".", "-"}

AllIn(s, lo, hi, S) == \A i \in lo..hi : s[i] \in S

validate_email(email) ==
    \E at \in 2..Len(email), dot \in 3..Len(email), end \in 5..Len(email) :
        /\ email[at] = "@"
        /\ AllIn(email, 1, at - 1, LocalChars)
        /\ dot >= at + 2
        /\ AllIn(email, at + 1, dot - 1, DomainChars)
        /\ email[dot] = "."
        /\ end >= dot + 2
        /\ AllIn(email, dot + 1, end, Alpha)
        /\ \/ end = Len(email)
           \/ end = Len(email) - 1 /\ email[Len(email)] = "\n"

RECURSIVE validate_recipients(_)
validate_recipients(rs) ==
    IF rs = <<>> THEN EmptyDict
    ELSE LET n == Len(rs)
         IN  DictSet(validate_recipients(SubSeq(rs, 1, n - 1)), rs[n],
                     validate_email(rs[n]))

get_invalid_emails(rs) == SelectSeq(rs, LAMBDA e : ~validate_email(e))

(***************************************************************************)
(* _send_email: one SMTP session.  `stage` is the first call that raises   *)
(* ("none": no call raises); any exception is re-raised wrapped.           *)
(***************************************************************************)
Stages == {"connect", "starttls", "login", "sendmail", "quit", "none"}

_send_email(stage) ==
    [exc         |-> stage # "none",
     opened      |-> stage # "connect",
     delivered   |-> stage \in {"quit", "none"},
     quit_called |-> stage \in {"quit", "none"}]

Attempt(to, stage) == [to |-> to, stage |-> stage]

(***************************************************************************)
(* Inputs                                                                  *)
(***************************************************************************)
NoRecipient == <<>>          \* None or '' (both falsy)
Good1 == <<"a", "@", "x", ".", "c", "o">>
Good2 == <<"b", "@", "x", ".", "c", "o">>
Bad1  == <<"b", "a", "d">>
Bad2  == <<"a", "@", "b">>
AddrPool == {Good1, Good2, Bad1, Bad2}

BatchOps  == {"send_batch_with_validation", "send_to_multiple_recipients"}
SingleOps == {"send_blog_post", "send_with_attachment", "_send_combined_posts"}
AttachmentStates == {"missing", "readable", "unreadable"}

NoError == [present |-> FALSE, invalid |-> <<>>]

\* the `results` literal of send_batch_with_validation
NewResults(rs) ==
    [validation |-> EmptyDict,
     sending    |-> EmptyDict,
     summary    |-> [total_recipients |-> Len(rs),
                     valid_emails     |-> 0,
                     invalid_emails   |-> 0,
                     emails_sent      |-> 0,
                     emails_failed    |-> 0],
     error      |-> NoError]

EmailInit ==
    /\ op \in BatchOps \cup SingleOps
    /\ recipients \in IF op \in BatchOps THEN SeqsUpTo(AddrPool, MaxRecipients)
                      ELSE {<<>>}
    /\ skip_invalid \in IF op = "send_batch_with_validation" THEN BOOLEAN
                        ELSE {TRUE}
    /\ recipient \in IF op \in SingleOps THEN {NoRecipient, Good1, Bad1}
                     ELSE {NoRecipient}
    /\ recipient_email \in IF op \in SingleOps THEN {NoRecipient, Good2}
                           ELSE {NoRecipient}
    /\ attachment \in IF op = "send_with_attachment" THEN AttachmentStates
                      ELSE {"missing"}
    /\ pc = "start"
    /\ results = NewResults(<<>>)
    /\ loop_list = <<>>
    /\ idx = 0
    /\ sending_results = EmptyDict
    /\ attempts = <<>>
    /\ ret = "unset"
    /\ raised = FALSE
    /\ GenIdle
    /\ CleanIdle
    /\ PostIdle
    /\ ParseIdle
    /\ ValIdle
    /\ SugIdle

(***************************************************************************)
(* send_batch_with_validation, up to the call of                           *)
(* send_to_multiple_recipients                                             *)
(***************************************************************************)
\* variant: the validity flag is ignored when picking whom to send to
Validated_SendsAll(rs) ==
    LET validation_results == validate_recipients(rs)
        valid_emails   == DictKeys(validation_results)
        invalid_emails == KeysWhere(validation_results, FALSE)
    IN  [valid_emails   |-> valid_emails,
         invalid_emails |-> invalid_emails,
         results |-> [NewResults(rs) EXCEPT
                        !.validation = validation_results,
                        !.summary.valid_emails = Len(valid_emails),
                        !.summary.invalid_emails = Len(invalid_emails)]]

Validated(rs) ==
    LET validation_results == validate_recipients(rs)
        valid_emails   == KeysWhere(validation_results, TRUE)
        invalid_emails == KeysWhere(validation_results, FALSE)
    IN  [valid_emails   |-> valid_emails,
         invalid_emails |-> invalid_emails,
         results |-> [NewResults(rs) EXCEPT
                        !.validation = validation_results,
                        !.summary.valid_emails = Len(valid_emails),
                        !.summary.invalid_emails = Len(invalid_emails)]]

\* variant: the flag is read the wrong way round
AbortsBatch_Inverted(invalid_emails, skip) == invalid_emails # <<>> /\ skip

\* `if not skip_invalid and invalid_emails:` under `if invalid_emails:`
AbortsBatch(invalid_emails, skip) == invalid_emails # <<>> /\ ~skip

send_batch_with_validation ==
    /\ op = "send_batch_with_validation"
    /\ pc = "start"
    /\ LET v == Validated(recipients)
       IN  IF AbortsBatch(v.invalid_emails, skip_invalid)
           THEN /\ results' = [v.results EXCEPT
                                 !.error = [present |-> TRUE,
                                            invalid |-> v.invalid_emails]]
                /\ pc' = "done"
                /\ UNCHANGED <<loop_list, sending_results>>
           ELSE IF v.valid_emails # <<>>
           THEN /\ results' = v.results
                /\ loop_list' = v.valid_emails
                /\ sending_results' = EmptyDict
                /\ pc' = "loop"
           ELSE /\ results' = v.results
                /\ pc' = "done"
                /\ UNCHANGED <<loop_list, sending_results>>
    /\ UNCHANGED <<genVars, cleanVars, auxVars, op, recipients, skip_invalid, recipient, recipient_email,
                   attachment, idx, attempts, ret, raised>>

(***************************************************************************)
(* send_to_multiple_recipients                                             *)
(***************************************************************************)
send_to_multiple_recipients ==
    /\ op = "send_to_multiple_recipients"
    /\ pc = "start"
    /\ loop_list' = recipients
    /\ sending_results' = EmptyDict
    /\ pc' = "loop"
    /\ UNCHANGED <<genVars, cleanVars, auxVars, op, recipients, skip_invalid, recipient, recipient_email,
                   attachment, results, idx, attempts, ret, raised>>

\* variant: the iteration has no try/except
IterationOutcome_NoCatch(stage) ==
    LET s == _send_email(stage)
    IN  [stored |-> ~s.exc, escapes |-> s.exc]

\* the try/except of one loop iteration: what is stored, and what escapes
IterationOutcome(stage) ==
    LET s == _send_email(stage)
    IN  [stored |-> ~s.exc, escapes |-> FALSE]

SendIteration ==
    /\ pc = "loop"
    /\ idx < Len(loop_list)
    /\ \E stage \in Stages :
         LET to  == loop_list[idx + 1]
             out == IterationOutcome(stage)
         IN  /\ attempts' = Append(attempts, Attempt(to, stage))
             /\ IF out.escapes
                THEN /\ raised' = TRUE
                     /\ pc' = "done"
                     /\ UNCHANGED <<sending_results, idx>>
                ELSE /\ sending_results' = DictSet(sending_results, to, out.stored)
                     /\ idx' = idx + 1
                     /\ UNCHANGED <<raised, pc>>
    /\ UNCHANGED <<genVars, cleanVars, auxVars, op, recipients, skip_invalid, recipient, recipient_email,
                   attachment, results, loop_list, ret>>

\* `return results`, and for the validated batch the rest of its body
Summarised(res, sending) ==
    LET sent == CountWhere(sending, TRUE)
    IN  [res EXCEPT !.sending = sending,
                    !.summary.emails_sent = sent,
                    !.summary.emails_failed = Len(sending) - sent]

LoopReturn ==
    /\ pc = "loop"
    /\ idx = Len(loop_list)
    /\ results' = IF op = "send_batch_with_validation"
                  THEN Summarised(results, sending_results)
                  ELSE results
    /\ pc' = "done"
    /\ UNCHANGED <<genVars, cleanVars, auxVars, op, recipients, skip_invalid, recipient, recipient_email,
                   attachment, loop_list, idx, sending_results, attempts,
                   ret, raised>>

(***************************************************************************)
(* The single sends: send_blog_post, send_with_attachment,                 *)
(* _send_combined_posts                                                    *)
(***************************************************************************)
\* `recipient = recipient or self.recipient_email`
EffectiveRecipient(r, default) == IF r # NoRecipient THEN r ELSE default

\* variant: the body's exception is not caught
SingleSendResult_NoCatch(bodyRaises) ==
    [ret |-> IF bodyRaises THEN "unset" ELSE "True", escapes |-> bodyRaises]

\* try: ... return True / except Exception: return False
SingleSendResult(bodyRaises) ==
    [ret |-> IF bodyRaises THEN "False" ELSE "True", escapes |-> FALSE]

SingleSend(name, readFails) ==
    /\ op = name
    /\ pc = "start"
    /\ LET to == EffectiveRecipient(recipient, recipient_email)
       IN  IF to = NoRecipient \/ readFails
           THEN \* ValueError / OSError before _send_email is reached
                LET out == SingleSendResult(TRUE)
                IN  /\ ret' = out.ret
                    /\ raised' = out.escapes
                    /\ UNCHANGED attempts
           ELSE \E stage \in Stages :
                LET out == SingleSendResult(_send_email(stage).exc)
                IN  /\ attempts' = Append(attempts, Attempt(to, stage))
                    /\ ret' = out.ret
                    /\ raised' = out.escapes
    /\ pc' = "done"
    /\ UNCHANGED <<genVars, cleanVars, auxVars, op, recipients, skip_invalid, recipient, recipient_email,
                   attachment, results, loop_list, idx, sending_results>>

send_blog_post == SingleSend("send_blog_post", FALSE)

send_with_attachment ==
    SingleSend("send_with_attachment", attachment = "unreadable")

_send_combined_posts == SingleSend("_send_combined_posts", FALSE)

EmailNext ==
    \/ send_batch_with_validation
    \/ send_to_multiple_recipients
    \/ SendIteration
    \/ LoopReturn
    \/ send_blog_post
    \/ send_with_attachment
    \/ _send_combined_posts

SpecEmail == EmailInit /\ [][EmailNext]_vars

(***************************************************************************)
(* Properties of the e-mail dispatcher (SpecEmail)                         *)
(***************************************************************************)
Range(f) == {f[i] : i \in DOMAIN f}
NoRepeats(f) == \A i, j \in DOMAIN f : f[i] = f[j] => i = j
AttemptedTo == [i \in 1..Len(attempts) |-> attempts[i].to]
ValidAddrs(rs) == {a \in Range(rs) : validate_email(a)}
InvalidAddrs(rs) == {a \in Range(rs) : ~validate_email(a)}
LastAttempt(a) ==
    attempts[CHOOSE i \in 1..Len(attempts) :
                /\ attempts[i].to = a
                /\ \A j \in (i + 1)..Len(attempts) : attempts[j].to # a]

StrictWithInvalid ==
    /\ op = "send_batch_with_validation"
    /\ ~skip_invalid
    /\ InvalidAddrs(recipients) # {}

\* C1: in strict mode (skip_invalid = false) a list with at least one
\* invalid address makes send_batch_with_validation return at once: no SMTP
\* session is ever opened, 'sending' stays empty, emails_sent and
\* emails_failed stay 0, and 'error' names exactly the invalid addresses.
C1_StrictAbortSendsNothing ==
    (StrictWithInvalid /\ pc # "start") =>
        /\ pc = "done"
        /\ attempts = <<>>
        /\ results.sending = EmptyDict
        /\ results.summary.emails_sent = 0
        /\ results.summary.emails_failed = 0
        /\ results.error.present
        /\ Range(results.error.invalid) = InvalidAddrs(recipients)
        /\ NoRepeats(results.error.invalid)

C1_Witness ==
    /\ StrictWithInvalid
    /\ pc = "done"
    /\ ValidAddrs(recipients) # {}
    /\ results.error.present

\* C2: with skip_invalid = true a send is attempted only for addresses that
\* passed validate_email, and the summary's valid_emails / invalid_emails
\* are the numbers of (distinct) addresses of the list that passed / failed.
C2_SkipInvalidSendsOnlyValid ==
    (op = "send_batch_with_validation" /\ skip_invalid /\ pc # "start") =>
        /\ \A i \in 1..Len(attempts) : attempts[i].to \in ValidAddrs(recipients)
        /\ results.summary.valid_emails = Cardinality(ValidAddrs(recipients))
        /\ results.summary.invalid_emails = Cardinality(InvalidAddrs(recipients))

C2_Witness ==
    /\ op = "send_batch_with_validation"
    /\ skip_invalid
    /\ pc = "done"
    /\ recipients = <<Good1, Bad1>>
    /\ AttemptedTo = <<Good1>>
    /\ results.summary.valid_emails = 1
    /\ results.summary.invalid_emails = 1

\* the list send_to_multiple_recipients iterates, in terms of the call's input
BatchTargets ==
    IF op = "send_to_multiple_recipients" THEN recipients
    ELSE KeysWhere(validate_recipients(recipients), TRUE)

ReturnedMap ==
    IF op = "send_to_multiple_recipients" THEN sending_results
    ELSE results.sending

C8_SingleSendReturnsBoolean ==
    (op \in SingleOps) =>
        /\ ~raised
        /\ pc = "done" =>
              /\ ret \in {"True", "False"}
              /\ ret = "True" <=> (Len(attempts) = 1 /\ attempts[1].stage = "none")
              /\ (recipient = NoRecipient /\ recipient_email = NoRecipient)
                    => (ret = "False" /\ attempts = <<>>)
              /\ Len(attempts) <= 1

C8_Witness ==
    /\ op \in SingleOps
    /\ pc = "done"
    /\ ret = "False"
    /\ Len(attempts) = 1
    /\ attempts[1].stage = "connect"

(***************************************************************************)
(* _clean_content.  Characters outside ASCII are written by code point.    *)
(***************************************************************************)
Star == "*"
Whitespace == {" ", "\n", "\t"}                      \* \s and str.strip()
WordChars == Alnum \cup {"_"}                        \* \w

\* the character class used for title, hashtags and call_to_action
BaseEmoji ==
    {"U+1F3AF", "U+1F4DD", "U+1F4A1", "U+1F680", "U+2728", "U+1F525",
     "U+1F4AA", "U+1F31F", "U+1F4C8", "U+2B50", "U+FE0F", "U+1F3AA",
     "U+1F3AD", "U+1F3A8", "U+1F3AC", "U+1F3A4", "U+1F3BC", "U+1F3B5",
     "U+1F3B6", "U+1F3B8", "U+1F3BA", "U+1F3BB", "U+1F973", "U+1F91D",
     "U+1F44D", "U+1F4AF"}
\* the character class used for content
ContentEmoji ==
    BaseEmoji \cup
    {"U+1F30D", "U+1F30E", "U+1F30F", "U+1F52E", "U+1F38A", "U+1F389",
     "U+1F388", "U+1F380", "U+1F381", "U+1F3C6", "U+1F947", "U+1F948",
     "U+1F949", "U+1F3C5", "U+1F396", "U+1F3F5", "U+1F397"}
Bullets == {"U+2022", "U+25AA", "U+25AB", "U+25E6", "U+2023", "U+2043"}
Dashes == {"-", "*"}

\* re.sub(r'[...]', '', s) and re.sub(r'\*+', '', s)
RemoveAll(s, S) == SelectSeq(s, LAMBDA c : c \notin S)

\* first index >= i whose character is not in S (Len(s) + 1 if none)
RECURSIVE SkipWhile(_, _, _)
SkipWhile(s, i, S) ==
    IF i <= Len(s) /\ s[i] \in S THEN SkipWhile(s, i + 1, S) ELSE i

\* first index >= i whose character is in S (Len(s) + 1 if none)
RECURSIVE SkipUntil(_, _, _)
SkipUntil(s, i, S) ==
    IF i <= Len(s) /\ s[i] \notin S THEN SkipUntil(s, i + 1, S) ELSE i

Stars(s, lo, hi) == hi <= Len(s) /\ \A k \in lo..hi : s[k] = Star

\* re.sub(r'\*{n}([^*]+)\*{n}', r'\1', s) from index i on, n = 2 (bold) or
\* 1 (italic): leftmost matches, each resumed after its closing markers
RECURSIVE UnwrapFrom(_, _, _)
UnwrapFrom(s, i, n) ==
    IF i > Len(s) THEN <<>>
    ELSE LET close == SkipUntil(s, i + n, {Star})
         IN  IF /\ Stars(s, i, i + n - 1)
                /\ close > i + n
                /\ Stars(s, close, close + n - 1)
             THEN SubSeq(s, i + n, close - 1) \o UnwrapFrom(s, close + n, n)
             ELSE <<s[i]>> \o UnwrapFrom(s, i + 1, n)
Unwrap(s, n) == UnwrapFrom(s, 1, n)

\* re.sub(r'\n{3,}', '\n\n', s)
RECURSIVE CollapseFrom(_, _)
CollapseFrom(s, i) ==
    IF i > Len(s) THEN <<>>
    ELSE LET end == SkipWhile(s, i, {"\n"})
         IN  IF end - i >= 3
             THEN <<"\n", "\n">> \o CollapseFrom(s, end)
             ELSE <<s[i]>> \o CollapseFrom(s, i + 1)
CollapseBlankLines(s) == CollapseFrom(s, 1)

AtLineStart(s, i) == i = 1 \/ s[i - 1] = "\n"            \* ^ with re.MULTILINE

\* re.sub(r'^[marks]\s*', '', s, flags=re.MULTILINE)   (minSpace = 0)
\* re.sub(r'^[marks]\s+', '', s, flags=re.MULTILINE)   (minSpace = 1)
RECURSIVE StripMarkersFrom(_, _, _, _)
StripMarkersFrom(s, i, marks, minSpace) ==
    IF i > Len(s) THEN <<>>
    ELSE LET end == SkipWhile(s, i + 1, Whitespace)
         IN  IF /\ AtLineStart(s, i)
                /\ s[i] \in marks
                /\ end - (i + 1) >= minSpace
             THEN StripMarkersFrom(s, end, marks, minSpace)
             ELSE <<s[i]>> \o StripMarkersFrom(s, i + 1, marks, minSpace)
StripMarkers(s, marks, minSpace) == StripMarkersFrom(s, 1, marks, minSpace)

\* str.strip()
RECURSIVE RStrip(_)
RStrip(s) ==
    IF s # <<>> /\ s[Len(s)] \in Whitespace THEN RStrip(SubSeq(s, 1, Len(s) - 1))
    ELSE s
strip(s) == LET t == RStrip(s) IN SubSeq(t, SkipWhile(t, 1, Whitespace), Len(t))

\* re.sub(r'(?<!\#)\b([A-Za-z][A-Za-z0-9_]*)', r'#\1', s)
RECURSIVE PrefixHashFrom(_, _)
PrefixHashFrom(s, i) ==
    IF i > Len(s) THEN <<>>
    ELSE IF /\ s[i] \in Alpha
            /\ i = 1 \/ (s[i - 1] \notin WordChars /\ s[i - 1] # "#")
         THEN LET end == SkipWhile(s, i, WordChars)
              IN  <<"#">> \o SubSeq(s, i, end - 1) \o PrefixHashFrom(s, end)
         ELSE <<s[i]>> \o PrefixHashFrom(s, i + 1)
PrefixHash(s) == PrefixHashFrom(s, 1)

CleanTitle(title) == strip(RemoveAll(RemoveAll(title, {Star}), BaseEmoji))

CleanContent(content) ==
    LET c1 == Unwrap(content, 2)
        c2 == Unwrap(c1, 1)
        c3 == RemoveAll(c2, {Star})
        c4 == RemoveAll(c3, ContentEmoji)
        c5 == CollapseBlankLines(c4)
        c6 == StripMarkers(c5, Bullets, 0)
        c7 == StripMarkers(c6, Dashes, 1)
    IN  strip(c7)

CleanHashtags(hashtags) == strip(PrefixHash(RemoveAll(hashtags, BaseEmoji)))

CleanCallToAction(cta) == strip(RemoveAll(RemoveAll(cta, BaseEmoji), {Star}))

\* each field is touched only `if blog_data[field]:`
_clean_content(d) ==
    [d EXCEPT
       !.title = IF @ # <<>> THEN CleanTitle(@) ELSE @,
       !.content = IF @ # <<>> THEN CleanContent(@) ELSE @,
       !.hashtags = IF @ # <<>> THEN CleanHashtags(@) ELSE @,
       !.call_to_action = IF @ # <<>> THEN CleanCallToAction(@) ELSE @]

(***************************************************************************)
(* The sanitizer applied, and applied again, to one record                 *)
(***************************************************************************)
Fields == {"title", "content", "hashtags", "call_to_action"}

\* characters the texts are drawn from, per field
FieldAlphabet(f) ==
    CASE f = "title" -> {"*", "a", " ", "U+1F3AF", "U+1F389"}
      [] f = "content" -> {"*", "a", " ", "\n", "-", "U+2022", "U+1F3AF"}
      [] f = "hashtags" -> {"#", "a", "1", "_", " ", "U+1F3AF"}
      [] f = "call_to_action" -> {"*", "a", " ", "U+1F3AF", "U+1F389"}

SampleText == <<"a">>

CleanInit ==
    /\ \E f \in Fields : \E x \in SeqsUpTo(FieldAlphabet(f), MaxTextLen) :
          blog_data = [g \in Fields |-> IF g = f THEN x ELSE SampleText]
    /\ clean_input = blog_data
    /\ first_pass = NoBlogData
    /\ passes = 0
    /\ EmailIdle
    /\ GenIdle
    /\ PostIdle
    /\ ParseIdle
    /\ ValIdle
    /\ SugIdle

CleanPass ==
    /\ passes < MaxPasses
    /\ blog_data' = _clean_content(blog_data)
    /\ first_pass' = IF passes = 0 THEN blog_data' ELSE first_pass
    /\ passes' = passes + 1
    /\ UNCHANGED <<emailVars, genVars, auxVars, clean_input>>

CleanNext == CleanPass

SpecClean == CleanInit /\ [][CleanNext]_vars

(***************************************************************************)
(* Properties of the sanitizer (SpecClean)                                 *)
(***************************************************************************)
\* C9: _clean_content is idempotent: a second pass over a sanitized record
\* changes no field.
C9_SanitizerIdempotent ==
    passes = 2 => blog_data = first_pass

\* every symbol the sanitizer has on a denylist
Denylist == BaseEmoji \cup ContentEmoji

Occurrences(s, S) == Len(SelectSeq(s, LAMBDA c : c \in S))

\* C10: after sanitization title, content and call_to_action hold no
\* denylisted symbol (one denylist, removed from every field) and no asterisk.
C10_NoDenylistedSymbolLeft ==
    passes >= 1 =>
        \A f \in {"title", "content", "call_to_action"} :
            Occurrences(blog_data[f], Denylist \cup {Star}) = 0

(***************************************************************************)
(* _parse_blog_response                                                    *)
(***************************************************************************)
StartsWith(s, p) == Len(s) >= Len(p) /\ SubSeq(s, 1, Len(p)) = p

\* `sub in s`
Contains(s, sub) ==
    \E i \in 0..(Len(s) - Len(sub)) : SubSeq(s, i + 1, i + Len(sub)) = sub

\* s.replace(p, '')
RECURSIVE RemoveFrom(_, _, _)
RemoveFrom(s, i, p) ==
    IF i > Len(s) THEN <<>>
    ELSE IF i + Len(p) - 1 <= Len(s) /\ SubSeq(s, i, i + Len(p) - 1) = p
         THEN RemoveFrom(s, i + Len(p), p)
         ELSE <<s[i]>> \o RemoveFrom(s, i + 1, p)
Remove(s, p) == RemoveFrom(s, 1, p)

\* s.split('\n')
RECURSIVE SplitLines(_)
SplitLines(s) ==
    LET nl == SkipUntil(s, 1, {"\n"})
    IN  IF nl > Len(s) THEN <<s>>
        ELSE <<SubSeq(s, 1, nl - 1)>> \o SplitLines(SubSeq(s, nl + 1, Len(s)))

TITLE_LABEL == <<"T", "I", "T", "L", "E", ":">>
CONTENT_LABEL == <<"C", "O", "N", "T", "E", "N", "T", ":">>
HASHTAGS_LABEL == <<"H", "A", "S", "H", "T", "A", "G", "S", ":">>
CALL_TO_ACTION_LABEL == <<"C", "A", "L", "L", "_", "T", "O", "_", "A", "C", "T", "I", "O", "N", ":">>

\* the label tests of the loop body, in the order of the if / elif chain
SectionOf(line) ==
    IF StartsWith(line, TITLE_LABEL) THEN "title"
    ELSE IF StartsWith(line, CONTENT_LABEL) THEN "content"
    ELSE IF StartsWith(line, HASHTAGS_LABEL) THEN "hashtags"
    ELSE IF StartsWith(line, CALL_TO_ACTION_LABEL) THEN "call_to_action"
    ELSE "none"

LabelOf(section) ==
    CASE section = "title" -> TITLE_LABEL
      [] section = "content" -> CONTENT_LABEL
      [] section = "hashtags" -> HASHTAGS_LABEL
      [] section = "call_to_action" -> CALL_TO_ACTION_LABEL

\* variant: a continuation line replaces what the section holds
ParseLine_Overwrite(st, rawLine) ==
    LET line == strip(rawLine)
        sec  == SectionOf(line)
    IN  IF sec # "none"
        THEN [data |-> [st.data EXCEPT ![sec] = strip(Remove(line, LabelOf(sec)))],
              current_section |-> sec]
        ELSE IF st.current_section # "none" /\ line # <<>>
        THEN [st EXCEPT !.data[st.current_section] = line]
        ELSE st

\* one iteration of `for line in lines:` on [data, current_section]
ParseLine(st, rawLine) ==
    LET line == strip(rawLine)
        sec  == SectionOf(line)
    IN  IF sec # "none"
        THEN [data |-> [st.data EXCEPT ![sec] = strip(Remove(line, LabelOf(sec)))],
              current_section |-> sec]
        ELSE IF st.current_section # "none" /\ line # <<>>
        THEN [st EXCEPT !.data[st.current_section] =
                 IF @ # <<>> THEN @ \o <<"\n">> \o line ELSE line]
        ELSE st

RECURSIVE ParseLines(_, _)
ParseLines(st, lines) ==
    IF lines = <<>> THEN st
    ELSE ParseLines(ParseLine(st, Head(lines)), Tail(lines))

_parse_blog_response(response_text) ==
    LET start == [data |-> [title |-> <<>>, content |-> <<>>,
                            hashtags |-> <<>>, call_to_action |-> <<>>,
                            full_post |-> response_text],
                  current_section |-> "none"]
    IN  _clean_content(ParseLines(start, SplitLines(response_text)).data)

(***************************************************************************)
(* generate_blog_post                                                      *)
(***************************************************************************)
UpperSeq == <<"A","B","C","D","E","F","G","H","I","J","K","L","M",
              "N","O","P","Q","R","S","T","U","V","W","X","Y","Z">>
LowerSeq == <<"a","b","c","d","e","f","g","h","i","j","k","l","m",
              "n","o","p","q","r","s","t","u","v","w","x","y","z">>

\* str.lower()
lower(s) ==
    [i \in 1..Len(s) |->
        IF s[i] \in Upper
        THEN LowerSeq[CHOOSE k \in 1..26 : UpperSeq[k] = s[i]]
        ELSE s[i]]

\* the message of the exception raised for an empty response.text
NO_CONTENT == <<"N", "o", " ", "c", "o", "n", "t", "e", "n", "t", " ", "g", "e", "n", "e", "r", "a", "t", "e", "d", " ", "f", "r", "o", "m", " ", "G", "o", "o", "g", "l", "e", " ", "A", "I">>

\* the fixed texts the three raised messages start with, each one symbol
QUOTA_TEXT == "<API Quota Exceeded! ... Original error: >"
RATE_TEXT == "<Rate Limit Exceeded! ... Original error: >"
GENERIC_TEXT == "<Google AI API Error: >"

\* variant: the two tests of the if / elif chain trade places
Classify_RateFirst(api_error) ==
    LET error_message == lower(api_error)
    IN  IF Contains(error_message, <<"r", "a", "t", "e">>)
        THEN [kind |-> "rate", message |-> <<RATE_TEXT>> \o api_error]
        ELSE IF \/ Contains(error_message, <<"q", "u", "o", "t", "a">>)
                \/ Contains(error_message, <<"e", "x", "c", "e", "e", "d", "e", "d">>)
                \/ Contains(error_message, <<"l", "i", "m", "i", "t">>)
        THEN [kind |-> "quota", message |-> <<QUOTA_TEXT>> \o api_error]
        ELSE [kind |-> "generic", message |-> <<GENERIC_TEXT>> \o api_error]

\* `except Exception as api_error:` -- which exception is raised instead
Classify(api_error) ==
    LET error_message == lower(api_error)
    IN  IF \/ Contains(error_message, <<"q", "u", "o", "t", "a">>)
           \/ Contains(error_message, <<"e", "x", "c", "e", "e", "d", "e", "d">>)
           \/ Contains(error_message, <<"l", "i", "m", "i", "t">>)
        THEN [kind |-> "quota", message |-> <<QUOTA_TEXT>> \o api_error]
        ELSE IF Contains(error_message, <<"r", "a", "t", "e">>)
        THEN [kind |-> "rate", message |-> <<RATE_TEXT>> \o api_error]
        ELSE [kind |-> "generic", message |-> <<GENERIC_TEXT>> \o api_error]

\* what generate_content does: raise with str(error) = text, or return a
\* response whose .text is text
ApiRaises(text) == [raises |-> TRUE, text |-> text]
ApiReturns(text) == [raises |-> FALSE, text |-> text]

\* the text of the exception the inner `except` sees
ErrorText(call) == IF call.raises THEN call.text ELSE NO_CONTENT

Fails(call) == call.raises \/ call.text = <<>>

\* the outcome of one call: the exception that leaves it, or the post
generate_blog_post(topic, call) ==
    IF Fails(call)
    THEN Classify(ErrorText(call)) @@ [post |-> <<>>]
    ELSE [kind |-> "ok", message |-> <<>>,
          post |-> [topic |-> topic] @@ _parse_blog_response(call.text)]

(***************************************************************************)
(* Inputs of the generator                                                 *)
(***************************************************************************)
Topics == {"AI in business", "Remote work"}

Words == {<<"q", "u", "o", "t", "a">>, <<"Q", "u", "o", "t", "a">>, <<"e", "x", "c", "e", "e", "d", "e", "d">>, <<"l", "i", "m", "i", "t">>,
          <<"r", "a", "t", "e">>, <<"R", "a", "t", "e">>, <<"e", "r", "r", "o", "r">>, <<"b", "u", "s", "y">>}

RECURSIVE JoinWords(_)
JoinWords(ws) ==
    IF ws = <<>> THEN <<>>
    ELSE IF Len(ws) = 1 THEN ws[1]
    ELSE ws[1] \o <<" ">> \o JoinWords(Tail(ws))

\* str(api_error): up to MaxWords words
Messages == {JoinWords(ws) : ws \in SeqsUpTo(Words, MaxWords)}

Responses == {<<>>,
              <<"T", "I", "T", "L", "E", ":", " ", "*", "a", "*", "\n", "C", "O", "N", "T", "E", "N", "T", ":", " ", "b", "\n", "-", " ", "c">>,
              <<"h", "e", "l", "l", "o">>}

ApiBehaviours ==
    {ApiRaises(m) : m \in Messages} \cup {ApiReturns(t) : t \in Responses}

GenInit ==
    /\ gen_op \in {"generate_blog_post", "generate_multiple_posts"}
    /\ topics \in IF gen_op = "generate_blog_post"
                  THEN {<<t>> : t \in Topics}
                  ELSE SeqsUpTo(Topics, MaxTopics)
    /\ api \in IF gen_op = "generate_blog_post" THEN ApiBehaviours ELSE {NoApi}
    /\ gen_pc = "start"
    /\ gen_idx = 0
    /\ blog_posts = <<>>
    /\ calls = <<>>
    /\ outcome = NoOutcome
    /\ gen_raised = FALSE
    /\ EmailIdle
    /\ CleanIdle
    /\ PostIdle
    /\ ParseIdle
    /\ ValIdle
    /\ SugIdle

Call(topic, kind) == [topic |-> topic, kind |-> kind]

\* one call of generate_blog_post by an outside caller
GenerateBlogPost ==
    /\ gen_op = "generate_blog_post"
    /\ gen_pc = "start"
    /\ outcome' = generate_blog_post(topics[1], api)
    /\ calls' = Append(calls, Call(topics[1], outcome'.kind))
    /\ gen_raised' = (outcome'.kind # "ok")         \* the bare `raise`
    /\ gen_pc' = "done"
    /\ UNCHANGED <<emailVars, cleanVars, auxVars, gen_op, topics, gen_idx, blog_posts,
                   api>>

(***************************************************************************)
(* generate_multiple_posts                                                 *)
(***************************************************************************)
generate_multiple_posts ==
    /\ gen_op = "generate_multiple_posts"
    /\ gen_pc = "start"
    /\ blog_posts' = <<>>
    /\ gen_pc' = "loop"
    /\ UNCHANGED <<emailVars, cleanVars, auxVars, gen_op, topics, gen_idx, api, calls,
                   outcome, gen_raised>>

\* variant: the loop body has no try/except
TopicOutcome_NoCatch(kind) == [append |-> kind = "ok", escapes |-> kind # "ok"]

\* the try/except of one loop iteration: is a post appended, what escapes
TopicOutcome(kind) == [append |-> kind = "ok", escapes |-> FALSE]

GenerateIteration ==
    /\ gen_pc = "loop"
    /\ gen_idx < Len(topics)
    /\ \E a \in ApiBehaviours :
         LET topic == topics[gen_idx + 1]
             r     == generate_blog_post(topic, a)
             out   == TopicOutcome(r.kind)
         IN  /\ calls' = Append(calls, Call(topic, r.kind))
             /\ IF out.escapes
                THEN /\ gen_raised' = TRUE
                     /\ gen_pc' = "done"
                     /\ UNCHANGED <<blog_posts, gen_idx>>
                ELSE /\ blog_posts' = IF out.append
                                      THEN Append(blog_posts, r.post)
                                      ELSE blog_posts
                     /\ gen_idx' = gen_idx + 1
                     /\ UNCHANGED <<gen_raised, gen_pc>>
    /\ UNCHANGED <<emailVars, cleanVars, auxVars, gen_op, topics, api, outcome>>

GenerateReturn ==
    /\ gen_pc = "loop"
    /\ gen_idx = Len(topics)
    /\ gen_pc' = "done"
    /\ UNCHANGED <<emailVars, cleanVars, auxVars, gen_op, topics, gen_idx, blog_posts,
                   api, calls, outcome, gen_raised>>

GenNext ==
    \/ GenerateBlogPost
    \/ generate_multiple_posts
    \/ GenerateIteration
    \/ GenerateReturn

SpecGen == GenInit /\ [][GenNext]_vars

(***************************************************************************)
(* Properties of the generator (SpecGen)                                   *)
(***************************************************************************)
SingleCallFailed ==
    /\ gen_op = "generate_blog_post"
    /\ gen_pc = "done"
    /\ Fails(api)

\* C4: an upstream error message containing "quota exceeded" classifies as
\* quota-exhausted, one containing "rate limit" as rate-limited, any other
\* message as generic.
C4_ClassificationExamples ==
    (SingleCallFailed /\ api.raises) =>
        LET quotaExceeded == Contains(api.text, <<"q", "u", "o", "t", "a", " ", "e", "x", "c", "e", "e", "d", "e", "d">>)
            rateLimit     == Contains(api.text, <<"r", "a", "t", "e", " ", "l", "i", "m", "i", "t">>)
        IN  /\ quotaExceeded => outcome.kind = "quota"
            /\ rateLimit => outcome.kind = "rate"
            /\ (~quotaExceeded /\ ~rateLimit) => outcome.kind = "generic"

\* C5: a response with empty text fails with the generic upstream error, not
\* with the quota-exhausted or the rate-limited one.
C5_EmptyResponseIsGeneric ==
    (SingleCallFailed /\ ~api.raises) => outcome.kind = "generic"

ExpectedKind(text) ==
    LET e == lower(text)
    IN  IF \/ Contains(e, <<"q", "u", "o", "t", "a">>)
           \/ Contains(e, <<"e", "x", "c", "e", "e", "d", "e", "d">>)
           \/ Contains(e, <<"l", "i", "m", "i", "t">>)
        THEN "quota"
        ELSE IF Contains(e, <<"r", "a", "t", "e">>) THEN "rate" ELSE "generic"

FixedTextOf(kind) ==
    CASE kind = "quota" -> QUOTA_TEXT
      [] kind = "rate" -> RATE_TEXT
      [] kind = "generic" -> GENERIC_TEXT

\* C6: a failed generation raises exactly one of three errors, chosen from
\* the lowercased error text in this order: "quota", "exceeded" or "limit"
\* in it -> quota-exhausted; else "rate" in it -> rate-limited; else generic;
\* and the raised text contains the original error text.
C6_ClassificationPriority ==
    SingleCallFailed =>
        /\ gen_raised
        /\ outcome.kind = ExpectedKind(ErrorText(api))
        /\ outcome.message[1] = FixedTextOf(outcome.kind)
        /\ Occurrences(outcome.message, {QUOTA_TEXT, RATE_TEXT, GENERIC_TEXT}) = 1
        /\ Contains(outcome.message, ErrorText(api))

C6_Witness ==
    /\ SingleCallFailed
    /\ api.raises
    /\ Contains(lower(api.text), <<"r", "a", "t", "e">>)
    /\ Contains(lower(api.text), <<"l", "i", "m", "i", "t">>)
    /\ outcome.kind = "quota"
    /\ Contains(outcome.message, api.text)

SucceededTopics ==
    LET ok == SelectSeq(calls, LAMBDA c : c.kind = "ok")
    IN  [i \in 1..Len(ok) |-> ok[i].topic]

\* C7: generate_multiple_posts never raises because a topic failed: every
\* topic is attempted once, in list order, and the result is exactly the
\* posts of the topics that succeeded, in the order of their topics.
C7_FailedTopicsSkipped ==
    (gen_op = "generate_multiple_posts") =>
        /\ ~gen_raised
        /\ gen_pc = "loop" =>
              [i \in 1..Len(calls) |-> calls[i].topic] = SubSeq(topics, 1, gen_idx)
        /\ gen_pc = "done" =>
              /\ [i \in 1..Len(calls) |-> calls[i].topic] = topics
              /\ [i \in 1..Len(blog_posts) |-> blog_posts[i].topic] = SucceededTopics
              /\ Len(blog_posts) = Len(SelectSeq(calls, LAMBDA c : c.kind = "ok"))

C7_Witness ==
    /\ gen_op = "generate_multiple_posts"
    /\ gen_pc = "done"
    /\ Len(topics) = 3
    /\ calls[1].kind = "quota"
    /\ calls[2].kind = "ok"
    /\ calls[3].kind = "generic"
    /\ Len(blog_posts) = 1
    /\ blog_posts[1].topic = topics[2]
(***************************************************************************)
(* Hashtags after sanitization (SpecClean)                                 *)
(***************************************************************************)
\* str.split(): the maximal runs of non-whitespace characters
RECURSIVE Tokens(_)
Tokens(s) ==
    LET from == SkipWhile(s, 1, Whitespace)
        to   == SkipUntil(s, from, Whitespace)
    IN  IF from > Len(s) THEN <<>>
        ELSE <<SubSeq(s, from, to - 1)>> \o Tokens(SubSeq(s, to, Len(s)))

LeadingHashes(t) == SkipWhile(t, 1, {"#"}) - 1

\* C11: after sanitization of a non-empty hashtags field every
\* whitespace-delimited token begins with '#', and a token that came with
\* one '#' in front still has exactly one.
C11_HashtagTokensPrefixed ==
    (passes >= 1 /\ clean_input.hashtags # <<>>) =>
        LET before == Tokens(clean_input.hashtags)
            after  == Tokens(blog_data.hashtags)
        IN  /\ \A k \in 1..Len(after) : after[k][1] = "#"
            /\ Len(before) = Len(after) =>
                  \A k \in 1..Len(after) :
                      LeadingHashes(before[k]) = 1 => LeadingHashes(after[k]) = 1
(***************************************************************************)
(* _parse_blog_response on a response written from its sections            *)
(***************************************************************************)
TitleBodies == {<<"a">>, <<"a", " ", "b">>, <<"*", "a", "*">>}
ContentLines == {<<>>, <<"a">>, <<"b", " ", "c">>, <<"-", " ", "a">>,
                 <<"*", "*", "b", "*", "*">>}
HashtagBodies == {<<"#", "a">>, <<"#", "a", " ", "#", "b">>, <<"b">>}
CallToActionBodies == {<<"a">>, <<"a", "*">>}

\* '\n'.join(lines)
RECURSIVE JoinLines(_)
JoinLines(lines) ==
    IF lines = <<>> THEN <<>>
    ELSE IF Len(lines) = 1 THEN lines[1]
    ELSE lines[1] \o <<"\n">> \o JoinLines(Tail(lines))

\* the response layout asked for in _create_blog_prompt; `spaced` puts an
\* empty line between the sections and blanks around each line
WriteResponse(sec) ==
    LET line(l) == IF sec.spaced THEN <<" ">> \o l \o <<" ">> ELSE l
        gap == IF sec.spaced THEN <<<<>>>> ELSE <<>>
        titleLine == <<line(TITLE_LABEL \o <<" ">> \o sec.title)>>
        contentLines ==
            <<line(CONTENT_LABEL \o <<" ">> \o sec.content[1])>>
            \o [i \in 1..(Len(sec.content) - 1) |-> line(sec.content[i + 1])]
        hashtagLine ==
            IF sec.has_hashtags
            THEN gap \o <<line(HASHTAGS_LABEL \o <<" ">> \o sec.hashtags)>>
            ELSE <<>>
        ctaLine == <<line(CALL_TO_ACTION_LABEL \o <<" ">> \o sec.call_to_action)>>
    IN  JoinLines(titleLine \o gap \o contentLines \o hashtagLine \o gap \o ctaLine)

ParseInit ==
    /\ sections \in
          {[title |-> t, content |-> c, has_hashtags |-> hh, hashtags |-> h,
            call_to_action |-> a, spaced |-> sp] :
              t \in TitleBodies,
              c \in SeqsUpTo(ContentLines, MaxContentLines) \ {<<>>},
              hh \in BOOLEAN, h \in HashtagBodies,
              a \in CallToActionBodies, sp \in BOOLEAN}
    /\ ~sections.has_hashtags => sections.hashtags = <<"b">>
    /\ response = <<>>
    /\ parsed = <<>>
    /\ EmailIdle
    /\ GenIdle
    /\ CleanIdle
    /\ PostIdle
    /\ ValIdle
    /\ SugIdle

ParseResponse ==
    /\ response = <<>>
    /\ response' = WriteResponse(sections)
    /\ parsed' = _parse_blog_response(response')
    /\ UNCHANGED <<emailVars, genVars, cleanVars, postVars, valVars, sugVars,
                   sections>>

ParseNext == ParseResponse

SpecParse == ParseInit /\ [][ParseNext]_vars

(***************************************************************************)
(* Properties of the parser (SpecParse)                                    *)
(***************************************************************************)
\* the body of each section: its non-empty lines joined by newline
SectionBodies ==
    [title          |-> sections.title,
     content        |-> JoinLines(SelectSeq(sections.content, LAMBDA l : l # <<>>)),
     hashtags       |-> IF sections.has_hashtags THEN sections.hashtags ELSE <<>>,
     call_to_action |-> sections.call_to_action]

\* the section bodies, with every line of the section kept
WrittenBodies ==
    [SectionBodies EXCEPT !.content = JoinLines(sections.content)]

\* C12 as stated: the parsed fields are exactly the section bodies (lines
\* trimmed and joined by newline); no HASHTAGS section gives an empty
\* hashtags field.
C12_FieldsEqualBodies ==
    response # <<>> =>
        \A f \in Fields : parsed[f] = WrittenBodies[f]

\* C12 amended: the parsed fields are the sanitized section bodies (the
\* non-empty lines, trimmed, joined by newline), so a body the sanitizer
\* leaves alone comes back exactly; no HASHTAGS section gives an empty
\* hashtags field.
C12_FieldsEqualSanitizedBodies ==
    response # <<>> =>
        /\ \A f \in Fields : parsed[f] = _clean_content(SectionBodies)[f]
        /\ \A f \in Fields :
              _clean_content(SectionBodies)[f] = SectionBodies[f]
                 => parsed[f] = SectionBodies[f]
        /\ ~sections.has_hashtags => parsed.hashtags = <<>>
        /\ parsed.full_post = response

C12_Witness ==
    /\ response # <<>>
    /\ Len(sections.content) = 2
    /\ sections.content[2] = <<"b", " ", "c">>
    /\ ~sections.has_hashtags
    /\ parsed.hashtags = <<>>
    /\ parsed.content = <<"a", "\n", "b", " ", "c">>
    /\ parsed.title = <<"a">>
(***************************************************************************)
(* validate_email and get_invalid_emails on arbitrary strings              *)
(***************************************************************************)
AddrAlphabet == {"a", "@", ".", "\n"}

Example1 == <<"v", "a", "l", "i", "d", "@", "e", "x", "a", "m", "p", "l", "e", ".", "c", "o", "m">>
Example2 == <<"a", ".", "b", "+", "c", "@", "s", "u", "b", ".", "d", "o", "m", "a", "i", "n", ".", "c", "o">>
Example3 == <<"n", "o", "t", "-", "a", "n", "-", "e", "m", "a", "i", "l">>
Example4 == <<"a", "@", "b">>
Examples == {Example1, Example2, Example3, Example4}

ValInit ==
    /\ address \in SeqsUpTo(AddrAlphabet, MaxAddrLen) \cup Examples
    /\ is_valid = FALSE
    /\ addr_list = <<>>
    /\ invalid_found = <<>>
    /\ val_pc = "start"
    /\ EmailIdle
    /\ GenIdle
    /\ CleanIdle
    /\ PostIdle
    /\ ParseIdle
    /\ SugIdle

ValidateEmail ==
    /\ val_pc = "start"
    /\ is_valid' = validate_email(address)
    /\ val_pc' = "validated"
    /\ UNCHANGED <<emailVars, genVars, cleanVars, postVars, parseVars, sugVars,
                   address, addr_list, invalid_found>>

GetInvalidEmails ==
    /\ val_pc = "validated"
    /\ \E rs \in SeqsUpTo({address, Good1}, 2) :
          /\ addr_list' = rs
          /\ invalid_found' = get_invalid_emails(rs)
    /\ val_pc' = "done"
    /\ UNCHANGED <<emailVars, genVars, cleanVars, postVars, parseVars, sugVars,
                   address, is_valid>>

ValNext ==
    \/ ValidateEmail
    \/ GetInvalidEmails

SpecValidate == ValInit /\ [][ValNext]_vars

(***************************************************************************)
(* Properties of the validator (SpecValidate)                              *)
(***************************************************************************)
\* the whole string is local-part '@' domain '.' TLD, nothing before or after
WholeStringIsAddress(s) ==
    \E at \in 1..Len(s), dot \in 1..Len(s) :
        /\ at >= 2
        /\ s[at] = "@"
        /\ \A i \in 1..(at - 1) : s[i] \in Alnum \cup {".", "_", "%", "+", "-"}
        /\ dot >= at + 2
        /\ \A i \in (at + 1)..(dot - 1) : s[i] \in Alnum \cup {".", "-"}
        /\ s[dot] = "."
        /\ Len(s) >= dot + 2
        /\ \A i \in (dot + 1)..Len(s) : s[i] \in Alpha

\* C13: validate_email is true exactly for the strings that are, as a whole,
\* local-part '@' domain '.' TLD (TLD alphabetic, two or more characters):
\* valid@example.com and a.b+c@sub.domain.co are valid, not-an-email and a@b
\* are not; get_invalid_emails returns exactly the entries that do not
\* validate, in order.
C13_ValidIffWholeStringMatches ==
    /\ val_pc # "start" =>
          /\ is_valid <=> WholeStringIsAddress(address)
          /\ address \in {Example1, Example2} => is_valid
          /\ address \in {Example3, Example4} => ~is_valid
    /\ val_pc = "done" =>
          invalid_found = SelectSeq(addr_list, LAMBDA e : ~WholeStringIsAddress(e))
(***************************************************************************)
(* get_topic_suggestions                                                   *)
(***************************************************************************)
\* f"{i}." for i in range(1, 11)
NumberPrefixes ==
    {<<"1", ".">>, <<"2", ".">>, <<"3", ".">>, <<"4", ".">>, <<"5", ".">>,
     <<"6", ".">>, <<"7", ".">>, <<"8", ".">>, <<"9", ".">>, <<"1", "0", ".">>}

\* any(line.startswith(f"{i}.") for i in range(1, 11))
IsNumbered(line) == \E p \in NumberPrefixes : StartsWith(line, p)

\* line.split('.', 1)[1].strip() if '.' in line else line
TopicOf(line) ==
    LET dot == SkipUntil(line, 1, {"."})
    IN  IF dot > Len(line) THEN line
        ELSE strip(SubSeq(line, dot + 1, Len(line)))

\* the for loop over response.text.split('\n')
RECURSIVE ExtractTopics(_)
ExtractTopics(lines) ==
    IF lines = <<>> THEN <<>>
    ELSE LET line == strip(Head(lines))
         IN  (IF line # <<>> /\ IsNumbered(line) THEN <<TopicOf(line)>> ELSE <<>>)
                 \o ExtractTopics(Tail(lines))

\* what the model does for this call: generate_content raises, or reading
\* response.text raises (a blocked response), or a text comes back
SugFails(fails) == [fails |-> fails, text |-> <<>>]
SugReturns(text) == [fails |-> "none", text |-> text]

\* the body of get_topic_suggestions without its except clause
TopicSuggestions_NoCatch(call) ==
    IF call.fails # "none"
    THEN [topics |-> <<>>, escapes |-> TRUE]
    ELSE [topics |-> ExtractTopics(SplitLines(call.text)), escapes |-> FALSE]

\* try: ... return topics / except Exception: return []
TopicSuggestions(call) ==
    IF call.fails # "none"
    THEN [topics |-> <<>>, escapes |-> FALSE]
    ELSE [topics |-> ExtractTopics(SplitLines(call.text)), escapes |-> FALSE]

LineIndents == {<<>>, <<" ">>}
LineNumbers == {<<"1", ".">>, <<"1", "0", ".">>, <<"1", "1", ".">>, <<"1">>, <<"-">>}
LineBodies == {<<>>, <<" ", "a">>, <<"5", " ", "a", ".", "b", " ">>}
SuggestionLines ==
    {i \o n \o b : i \in LineIndents, n \in LineNumbers, b \in LineBodies}

SuggestionTexts ==
    {JoinLines(ls) : ls \in SeqsUpTo(SuggestionLines, MaxSuggestionLines)}

SugBehaviours ==
    {SugFails("generate_content"), SugFails("text")}
        \cup {SugReturns(t) : t \in SuggestionTexts}

SugInit ==
    /\ sug_api \in SugBehaviours
    /\ suggestions = <<>>
    /\ sug_raised = FALSE
    /\ sug_pc = "start"
    /\ EmailIdle
    /\ GenIdle
    /\ CleanIdle
    /\ PostIdle
    /\ ParseIdle
    /\ ValIdle

get_topic_suggestions ==
    /\ sug_pc = "start"
    /\ LET r == TopicSuggestions(sug_api)
       IN  /\ suggestions' = r.topics
           /\ sug_raised' = r.escapes
    /\ sug_pc' = "done"
    /\ UNCHANGED <<emailVars, genVars, cleanVars, postVars, parseVars, valVars,
                   sug_api>>

SugNext == get_topic_suggestions

SpecSuggest == SugInit /\ [][SugNext]_vars

(***************************************************************************)
(* Properties of get_topic_suggestions (SpecSuggest)                       *)
(***************************************************************************)
\* the text after the number prefix p of a trimmed line
AfterPrefix(line, p) == strip(SubSeq(line, Len(p) + 1, Len(line)))

\* the numbered lines of a text, in order, each reduced to the text after
\* its prefix
RECURSIVE NumberedTexts(_)
NumberedTexts(lines) ==
    IF lines = <<>> THEN <<>>
    ELSE LET line == strip(Head(lines))
             ps == {p \in NumberPrefixes : StartsWith(line, p)}
         IN  (IF ps = {} THEN <<>> ELSE <<AfterPrefix(line, CHOOSE p \in ps : TRUE)>>)
                 \o NumberedTexts(Tail(lines))

\* C14: get_topic_suggestions never lets an error escape; when the
\* generation call or the reading of its response fails it returns the empty
\* list, otherwise it returns, in response order, the text after the number
\* of every line that starts with one of the prefixes "1." to "10.".
C14_SuggestionsNeverRaise ==
    sug_pc = "done" =>
        /\ ~sug_raised
        /\ sug_api.fails # "none" => suggestions = <<>>
        /\ sug_api.fails = "none" =>
              suggestions = NumberedTexts(SplitLines(sug_api.text))

C14_Witness ==
    /\ sug_pc = "done"
    /\ sug_api.fails = "text"
    /\ suggestions = <<>>
    /\ ~sug_raised
(***************************************************************************)
(* Properties of the transport sessions (SpecEmail)                        *)
(***************************************************************************)
\* sessions that were opened and never quit by the _send_email that opened them
OpenSessions ==
    {i \in 1..Len(attempts) :
        /\ _send_email(attempts[i].stage).opened
        /\ ~_send_email(attempts[i].stage).quit_called}

\* C15: on every path through _send_email, also where starttls, login or
\* sendmail fails, a session that was opened is quit before _send_email
\* returns or raises, so no session stays open after the call.
C15_OpenedSessionsAreQuit == OpenSessions = {}
(***************************************************************************)
(* Properties of the batch operations on repeated addresses (SpecEmail)    *)
(***************************************************************************)
AllValid(rs) == \A i \in 1..Len(rs) : validate_email(rs[i])

\* the batch is one whose every entry is to be sent to
SendsToEveryEntry ==
    \/ op = "send_to_multiple_recipients"
    \/ op = "send_batch_with_validation" /\ AllValid(recipients)

\* C16: a batch of N recipients issues exactly N sessions, one per recipient
\* entry and in list order, none repeated after a failure; for
\* send_to_multiple_recipients on any list and for
\* send_batch_with_validation on any list of valid recipients (either value
\* of skip_invalid), lists with a repeated address included.
C16_OneSessionPerEntry ==
    SendsToEveryEntry =>
        /\ Len(attempts) <= Len(recipients)
        /\ AttemptedTo = SubSeq(recipients, 1, Len(attempts))
        /\ pc = "done" => Len(attempts) = Len(recipients)

\* C17: the summary of send_batch_with_validation is consistent for every
\* recipient list and every pattern of send failures: valid_emails +
\* invalid_emails = total_recipients and, unless the call aborted in strict
\* mode, emails_sent + emails_failed = valid_emails.
C17_SummaryConsistent ==
    (op = "send_batch_with_validation" /\ pc = "done") =>
        LET s == results.summary
        IN  /\ s.valid_emails + s.invalid_emails = s.total_recipients
            /\ ~results.error.present => s.emails_sent + s.emails_failed = s.valid_emails
(***************************************************************************)
(* send_multiple_posts                                                     *)
(***************************************************************************)
\* str(n) for n >= 0
RECURSIVE Decimal(_)
Decimal(n) ==
    LET digit == <<"0", "1", "2", "3", "4", "5", "6", "7", "8", "9">>[(n % 10) + 1]
    IN  IF n < 10 THEN <<digit>> ELSE Decimal(n \div 10) \o <<digit>>

\* post.get('title', f'Post {i+1}') for the post at 0-based position i
post_title(post, i) ==
    IF post.has_title THEN post.title
    ELSE <<"P", "o", "s", "t", " ">> \o Decimal(i + 1)

COMBINED_KEY ==
    <<"C", "o", "m", "b", "i", "n", "e", "d", " ", "P", "o", "s", "t", "s">>

Titled(t) == [has_title |-> TRUE, title |-> t]
Untitled == [has_title |-> FALSE, title |-> <<>>]
PostPool == {Titled(<<"A">>), Titled(<<"B">>), Untitled}

\* one call of send_blog_post / _send_combined_posts made by send_multiple_posts
PostSend(i, success) == [post |-> i, success |-> success]

PostsInit ==
    /\ op = "send_multiple_posts"
    /\ pc = "start"
    /\ posts \in SeqsUpTo(PostPool, MaxPosts)
    /\ send_separately \in BOOLEAN
    /\ recipient \in {NoRecipient, Good1}
    /\ recipient_email \in {NoRecipient, Good2}
    /\ post_results = EmptyDict
    /\ post_idx = 0
    /\ post_sends = <<>>
    /\ attempts = <<>>
    /\ raised = FALSE
    /\ ret = "unset"
    /\ recipients = <<>>
    /\ skip_invalid = TRUE
    /\ attachment = "missing"
    /\ results = <<>>
    /\ loop_list = <<>>
    /\ idx = 0
    /\ sending_results = <<>>
    /\ GenIdle
    /\ CleanIdle
    /\ ParseIdle
    /\ ValIdle
    /\ SugIdle

\* results = {}; then the loop is entered, or the single combined send is made
send_multiple_posts ==
    /\ op = "send_multiple_posts"
    /\ pc = "start"
    /\ IF send_separately
       THEN /\ post_results' = EmptyDict
            /\ pc' = "loop"
            /\ UNCHANGED <<post_sends, attempts, raised>>
       ELSE LET to == EffectiveRecipient(recipient, recipient_email)
            IN  /\ IF to = NoRecipient
                   THEN LET out == SingleSendResult(TRUE)
                        IN  /\ post_results' = DictSet(EmptyDict, COMBINED_KEY, out.ret = "True")
                            /\ post_sends' = <<PostSend(0, out.ret = "True")>>
                            /\ raised' = out.escapes
                            /\ UNCHANGED attempts
                   ELSE \E stage \in Stages :
                        LET out == SingleSendResult(_send_email(stage).exc)
                        IN  /\ attempts' = Append(attempts, Attempt(to, stage))
                            /\ post_results' = DictSet(EmptyDict, COMBINED_KEY, out.ret = "True")
                            /\ post_sends' = <<PostSend(0, out.ret = "True")>>
                            /\ raised' = out.escapes
                /\ pc' = "done"
    /\ UNCHANGED <<genVars, cleanVars, parseVars, valVars, sugVars, op, recipients,
                   skip_invalid, recipient, recipient_email, attachment, results,
                   loop_list, idx, sending_results, ret, posts, send_separately,
                   post_idx>>

\* one iteration of `for i, post in enumerate(blog_posts)`
PostIteration ==
    /\ op = "send_multiple_posts"
    /\ pc = "loop"
    /\ post_idx < Len(posts)
    /\ LET i == post_idx
           post == posts[i + 1]
           to == EffectiveRecipient(recipient, recipient_email)
       IN  IF to = NoRecipient
           THEN LET out == SingleSendResult(TRUE)
                IN  /\ post_results' = DictSet(post_results, post_title(post, i), out.ret = "True")
                    /\ post_sends' = Append(post_sends, PostSend(i + 1, out.ret = "True"))
                    /\ raised' = out.escapes
                    /\ UNCHANGED attempts
           ELSE \E stage \in Stages :
                LET out == SingleSendResult(_send_email(stage).exc)
                IN  /\ attempts' = Append(attempts, Attempt(to, stage))
                    /\ post_results' = DictSet(post_results, post_title(post, i), out.ret = "True")
                    /\ post_sends' = Append(post_sends, PostSend(i + 1, out.ret = "True"))
                    /\ raised' = out.escapes
    /\ post_idx' = post_idx + 1
    /\ UNCHANGED <<genVars, cleanVars, parseVars, valVars, sugVars, op, recipients,
                   skip_invalid, recipient, recipient_email, attachment, pc, results,
                   loop_list, idx, sending_results, ret, posts, send_separately>>

\* return results
PostsReturn ==
    /\ op = "send_multiple_posts"
    /\ pc = "loop"
    /\ post_idx = Len(posts)
    /\ pc' = "done"
    /\ UNCHANGED <<genVars, cleanVars, auxVars, op, recipients, skip_invalid,
                   recipient, recipient_email, attachment, results, loop_list, idx,
                   sending_results, attempts, ret, raised>>

PostsNext ==
    \/ send_multiple_posts
    \/ PostIteration
    \/ PostsReturn

SpecPosts == PostsInit /\ [][PostsNext]_vars

(***************************************************************************)
(* Properties of send_multiple_posts (SpecPosts)                           *)
(***************************************************************************)
\* C18: with send_separately = true, N posts give N send attempts in list
\* order and a result map of N entries, one per post, each holding the
\* outcome of that post's own send, also when two posts share a title or a
\* post has none; with send_separately = false there is exactly one send
\* attempt and exactly one entry.
C18_EveryPostReported ==
    (op = "send_multiple_posts" /\ pc = "done") =>
        IF send_separately
        THEN /\ Len(post_sends) = Len(posts)
             /\ \A i \in 1..Len(post_sends) : post_sends[i].post = i
             /\ Len(post_results) = Len(posts)
             /\ \A i \in 1..Len(posts) :
                   /\ DictHas(post_results, post_title(posts[i], i - 1))
                   /\ DictGet(post_results, post_title(posts[i], i - 1)) = post_sends[i].success
        ELSE /\ Len(post_sends) = 1
             /\ Len(post_results) = 1
====
